---------------------------- MODULE Spec2Model ----------------------------
(***************************************************************************)
(* A model of sims_GalSimInterface: the GalSimInterpreter session          *)
(* (findAllDetectors, blankImage, drawObject, writeImages) and the         *)
(* GalSimDetector lazy WCS property with its FITS header enrichment.       *)
(*                                                                         *)
(* Units.  Pupil coordinates are integers counting 0.05 arcsec, so that    *)
(* the test image's scale (testScale = 0.1 arcsec) is TestScale = 2 and    *)
(* the half pixel of "XMax*testScale/2.0" stays an integer.  Pixel         *)
(* coordinates on a detector are kept doubled (2*pixel) for the same       *)
(* reason: the afw Box2D of an integer box reaches half a pixel beyond it. *)
(* Character strings are sequences of one-character strings, so that       *)
(* replace(), re.match() and the % formatting are computed as the code     *)
(* computes them.                                                          *)
(***************************************************************************)
EXTENDS Integers, Sequences, FiniteSets, TLC

VARIABLES
    obs_metadata,     \* the pointing: [bandpass, phoSimMetaData]
    noiseWrapper,     \* GalSimInterpreter.noiseWrapper: "None" or "noise"
    seeded,           \* whether __init__ got a seed (self._rng is not None)
    PSF,              \* GalSimInterpreter.PSF: "None" or "psf"
    rngPos,           \* how many renders have drawn from self._rng
    wcs,              \* GalSimDetector._wcs of each detector
    wcsFits,          \* calls of tanSipWcsFromDetector made for each detector
    blankImageCache,  \* dict: detector name -> buffer
    detectorImages,   \* dict: FITS file name -> buffer
    heap,             \* the image buffers: a sequence, buffer b is heap[b]
    last,             \* the last drawObject call or wcs read and its outcome
    drawn,            \* the drawObject calls made so far: how many, whether
                      \* one raised in its loops, the flux each image should hold
    held,             \* the buffers blankImage returned to its caller
    loc,              \* the findAllDetectors call under study
    thr               \* the threads reading GalSimDetector.wcs

vars == <<obs_metadata, noiseWrapper, seeded, PSF, rngPos, wcs, wcsFits,
          blankImageCache, detectorImages, heap, last, drawn, held, loc, thr>>

(***************************************************************************)
(* Bounds of the model.                                                    *)
(***************************************************************************)
ImgSize == 4
MaxDraws == 2
MaxBlank == 1

(***************************************************************************)
(* Program constants.                                                      *)
(***************************************************************************)
TestScale == 2
ThresholdInv == 1000
DefaultObsHistId == 9999
ListFiltNum == 2

(***************************************************************************)
(* Sequence helpers.                                                       *)
(***************************************************************************)
RECURSIVE Flatten(_)
Flatten(ss) == IF ss = <<>> THEN <<>> ELSE Head(ss) \o Flatten(Tail(ss))

SeqToSet(s) == {s[i] : i \in DOMAIN s}

SetMin(S) == CHOOSE m \in S : \A x \in S : m <= x

SetMax(S) == CHOOSE m \in S : \A x \in S : m >= x

\* F applied to the value of e, which is computed once.
Bind(e, F(_)) == CHOOSE y \in {F(x) : x \in {e}} : TRUE

\* A Python dict is a function; this is the empty one.
EmptyDict == [x \in {} |-> 0]

(***************************************************************************)
(* The detector list: two adjacent detectors of 4 by 4 pixels that share   *)
(* the edge x = 16.  The first is named as a sensor of an LSST raft, the   *)
(* second as the detectors of another camera are.  A detector pixel is     *)
(* 0.2 arcsec.                                                             *)
(***************************************************************************)
NameR22S11 == <<"R", ":", "2", ",", "2", " ", "S", ":", "1", ",", "1">>

NameDet22 == <<"D", "e", "t", "2", "2">>

PixelSize == 2 * TestScale

MkDetector(name, x0, y0, nx, ny) ==
    [ name |-> name,
      xMinPix |-> 0, xMaxPix |-> nx - 1,
      yMinPix |-> 0, yMaxPix |-> ny - 1,
      xMinArcsec |-> x0, xMaxArcsec |-> x0 + PixelSize * nx,
      yMinArcsec |-> y0, yMaxArcsec |-> y0 + PixelSize * ny ]

detectors ==
    << MkDetector(NameR22S11, 0, 0, 4, 4),
       MkDetector(NameDet22, 16, 0, 4, 4) >>

DetIds == DOMAIN detectors

(***************************************************************************)
(* GalSimDetector._getFileName: ',' ':' and ' ' become '_'.                *)
(***************************************************************************)
ReplaceChar(s, from, to) == [i \in DOMAIN s |-> IF s[i] = from THEN to ELSE s[i]]

DetectorFileName(name) ==
    ReplaceChar(ReplaceChar(ReplaceChar(name, ",", "_"), ":", "_"), " ", "_")

fileName(d) == DetectorFileName(detectors[d].name)

(***************************************************************************)
(* pixelCoordsFromPupilCoords for one detector, as doubled pixel           *)
(* coordinates: the detector's pupil box is the image of the Box2D of its  *)
(* pixels, which starts half a pixel before pixel xMinPix.                 *)
(***************************************************************************)
pixelCoordinatesFromPupilCoordinates(d, xPupil, yPupil) ==
    LET dd == detectors[d]
    IN  << (2 * (xPupil - dd.xMinArcsec)) \div PixelSize + 2 * dd.xMinPix - 1,
           (2 * (yPupil - dd.yMinArcsec)) \div PixelSize + 2 * dd.yMinPix - 1 >>

\* afwGeom.Box2D(bbox).contains: the box is closed below and open above.
BBoxContains(d, pp) ==
    LET dd == detectors[d]
    IN  /\ 2 * dd.xMinPix - 1 <= pp[1] /\ pp[1] < 2 * dd.xMaxPix + 1
        /\ 2 * dd.yMinPix - 1 <= pp[2] /\ pp[2] < 2 * dd.yMaxPix + 1

containsPupilCoordinates(d, xPupil, yPupil) ==
    BBoxContains(d, pixelCoordinatesFromPupilCoordinates(d, xPupil, yPupil))

(***************************************************************************)
(* The test image that centeredObj.drawImage(scale, 'phot', 1000) returns: *)
(* a square of n by n pixels with bounds (1,1)..(n,n); array[<<r, c>>] is  *)
(* the numpy array's element [r][c], row r being y and column c being x.   *)
(***************************************************************************)
getXMax(img) == img.n

getYMax(img) == img.n

getYMin(img) == 1

Pixels(n) == (0 .. n - 1) \X (0 .. n - 1)

\* centeredImage(x, y): the value at image position (x, y), bounds from 1.
ImageAt(img, x, y) == img.array[<<y - 1, x - 1>>]

(***************************************************************************)
(* The 1-D overlap test of both passes of findAllDetectors.                *)
(***************************************************************************)
OverLaps(lo, hi, dMin, dMax) ==
    \/ hi > dMin /\ hi < dMax
    \/ lo > dMin /\ lo < dMax
    \/ lo < dMin /\ hi > dMax

BoxOverLaps(box, d) ==
    LET dd == detectors[d]
    IN  /\ OverLaps(box.xmin, box.xmax, dd.xMinArcsec, dd.xMaxArcsec)
        /\ OverLaps(box.ymin, box.ymax, dd.yMinArcsec, dd.yMaxArcsec)

\* The bounds of the whole test image about the object (Python 2: / floors).
Pass1Box(gsObject, img) ==
    [ xmax |-> TestScale * (getXMax(img) \div 2) + gsObject.xPupilArcsec,
      xmin |-> TestScale * ((-1 * getXMax(img)) \div 2) + gsObject.xPupilArcsec,
      ymax |-> TestScale * (getYMax(img) \div 2) + gsObject.yPupilArcsec,
      ymin |-> TestScale * ((-1 * getYMin(img)) \div 2) + gsObject.yPupilArcsec ]

\* The detectors of the list, in order, whose pupil box overlaps box.
overlapping(candidates, box) ==
    SelectSeq(candidates, LAMBDA d : BoxOverLaps(box, d))

\* A first pass that keeps every detector.
viableDetectorsAll(gsObject, img) ==
    [i \in DetIds |-> i]

viableDetectors(gsObject, img) ==
    overlapping([i \in DetIds |-> i], Pass1Box(gsObject, img))

\* numpy.where(array > maxPixel*0.001), maxPixel being the central pixel.
maxPixel(img) == ImageAt(img, getXMax(img) \div 2, getYMax(img) \div 2)

activePixels(img) ==
    Bind(maxPixel(img), LAMBDA m :
        {p \in DOMAIN img.array : img.array[p] * ThresholdInv > m})

\* The bounds of the active pixels ap: activePixels[0] holds the array's
\* first index and is used for x, activePixels[1] the second, used for y.
Pass2Box(gsObject, img, ap) ==
    LET i0 == {p[1] : p \in ap}
        i1 == {p[2] : p \in ap}
    IN  [ xmin |-> TestScale * (SetMin(i0) - getXMax(img) \div 2) + gsObject.xPupilArcsec,
          xmax |-> TestScale * (SetMax(i0) - getXMax(img) \div 2) + gsObject.xPupilArcsec,
          ymin |-> TestScale * (SetMin(i1) - getYMax(img) \div 2) + gsObject.yPupilArcsec,
          ymax |-> TestScale * (SetMax(i1) - getYMax(img) \div 2) + gsObject.yPupilArcsec ]

\* _doesObjectImpingeOnDetector: some active pixel falls on the detector.
doesObjectImpingeOnDetector(xPupil, yPupil, d, imgScale, nonZeroPixels) ==
    \E p \in nonZeroPixels :
        containsPupilCoordinates(d, xPupil + p[1] * imgScale, yPupil + p[2] * imgScale)

\* The call of _doesObjectImpingeOnDetector that findAllDetectors makes.
Impinges(gsObject, img, ap, d) ==
    doesObjectImpingeOnDetector(
        gsObject.xPupilArcsec - (getXMax(img) * TestScale) \div 2,
        gsObject.yPupilArcsec - (getYMax(img) * TestScale) \div 2,
        d, TestScale, ap)

(***************************************************************************)
(* createCenteredObject: "profile" for the two shapes it can draw,         *)
(* "None" for any other, "raise" for a point source without a PSF.         *)
(***************************************************************************)
\* A point source drawn without consulting self.PSF.
createCenteredObjectUnchecked(gsObject, psf) ==
    IF gsObject.galSimType \in {"sersic", "pointSource"} THEN "profile" ELSE "None"

createCenteredObject(gsObject, psf) ==
    IF gsObject.galSimType = "sersic" THEN "profile"
    ELSE IF gsObject.galSimType = "pointSource"
         THEN (IF psf = "None" THEN "raise" ELSE "profile")
         ELSE "None"

\* Names joined by a single '/'.
JoinSingle(names) ==
    Flatten([i \in DOMAIN names |->
                IF i = 1 THEN names[i] ELSE <<"/">> \o names[i]])

\* outputString: the names joined by '//'.
Join(names) ==
    Flatten([i \in DOMAIN names |->
                IF i = 1 THEN names[i] ELSE <<"/", "/">> \o names[i]])

\* The second pass and the per-pixel check, over the viable detectors.
illuminated(gsObject, img, viable) ==
    IF Len(viable) > 0
    THEN Bind(activePixels(img), LAMBDA ap :
         Bind(Pass2Box(gsObject, img, ap), LAMBDA box :
            SelectSeq(overlapping(viable, box),
                      LAMBDA d : Impinges(gsObject, img, ap, d))))
    ELSE <<>>

(***************************************************************************)
(* findAllDetectors(gsObject), img being the test image its render gives.  *)
(* kind is "tuple" when it returns (outputString, outputList,              *)
(* centeredObj), "None" for its bare return, "raise" when it raises.       *)
(***************************************************************************)
NoDetectors(kind) ==
    [kind |-> kind, outputString |-> <<>>, isNone |-> TRUE,
     outputList |-> <<>>, rendered |-> FALSE, thresholded |-> FALSE]

findAllDetectors(gsObject, img, psf) ==
    Bind(createCenteredObject(gsObject, psf), LAMBDA centeredObj :
        IF centeredObj = "raise" THEN NoDetectors("raise")
        ELSE IF centeredObj = "None" THEN NoDetectors("None")
        ELSE Bind(viableDetectors(gsObject, img), LAMBDA viable :
             Bind(illuminated(gsObject, img, viable), LAMBDA outputList :
                [kind |-> "tuple",
                 outputString |-> Join([i \in DOMAIN outputList |->
                                           detectors[outputList[i]].name]),
                 isNone |-> outputList = <<>>,
                 outputList |-> outputList,
                 rendered |-> TRUE,
                 thresholded |-> Len(viable) > 0])))

(***************************************************************************)
(* The FITS header enrichment of GalSimDetector.wcs.                       *)
(***************************************************************************)
IsDigit(c) == c \in {"0", "1", "2", "3", "4", "5", "6", "7", "8", "9"}

\* re.match('R_[0-9]_[0-9]_S_[0-9]_[0-9]', s): the pattern matches a prefix.
MatchesRaftSensor(s) ==
    /\ Len(s) >= 11
    /\ s[1] = "R" /\ s[2] = "_" /\ IsDigit(s[3]) /\ s[4] = "_" /\ IsDigit(s[5])
    /\ s[6] = "_" /\ s[7] = "S" /\ s[8] = "_" /\ IsDigit(s[9]) /\ s[10] = "_"
    /\ IsDigit(s[11])

\* str.replace(old, new) for a one-character old.
Replace(s, old, new) ==
    Flatten([i \in DOMAIN s |-> IF s[i] = old THEN new ELSE <<s[i]>>])

\* fileName.replace('_', '').replace('S', '_S')
ChipId(fname) == Replace(Replace(fname, "_", <<>>), "S", <<"_", "S">>)

DigitChar(k) == <<"0", "1", "2", "3", "4", "5", "6", "7", "8", "9">>[k + 1]

\* '%d' % n for n >= 0
RECURSIVE FormatD(_)
FormatD(n) == IF n < 10 THEN <<DigitChar(n)>>
              ELSE FormatD(n \div 10) \o <<DigitChar(n % 10)>>

FiltNums == [b \in {"u", "g", "r", "i", "z", "y"} |->
                CASE b = "u" -> 0 [] b = "g" -> 1 [] b = "r" -> 2
                  [] b = "i" -> 3 [] b = "z" -> 4 [] b = "y" -> 5]

IsListBandpass(bp) == bp = "list"

\* 'lsst_e_%d_f%d_%s_E000' % (obshistid, filt_num, wcsName)
OutName(obshistid, filt_num, wcsName) ==
    <<"l", "s", "s", "t", "_", "e", "_">> \o FormatD(obshistid)
        \o <<"_", "f">> \o FormatD(filt_num) \o <<"_">> \o wcsName
        \o <<"_", "E", "0", "0", "0">>

PhoSimNone == [kind |-> "None", hasObsHistId |-> FALSE, obshistid |-> 0]

PhoSimEmpty == [kind |-> "dict", hasObsHistId |-> FALSE, obshistid |-> 0]

PhoSim(id) == [kind |-> "dict", hasObsHistId |-> TRUE, obshistid |-> id]

\* phoSimMetaData is not None and 'Opsim_obshistid' in phoSimMetaData
HasObsHistId(md) ==
    md.phoSimMetaData.kind = "dict" /\ md.phoSimMetaData.hasObsHistId

\* GalSim_afw_TanSipWCS.__init__ with wcs=None: the header of the fit plus
\* EXTTYPE and, for a single bandpass, FILTER.
BaseHeader(d, md) ==
    LET fit == [f \in {"CRPIX1", "CRPIX2", "EXTTYPE"} |->
                   CASE f = "CRPIX1" -> detectors[d].xMaxPix + 1
                     [] f = "CRPIX2" -> detectors[d].yMaxPix + 1
                     [] f = "EXTTYPE" -> <<"I", "M", "A", "G", "E">>]
    IN  IF md.bandpass # "None" /\ ~IsListBandpass(md.bandpass)
        THEN fit @@ ("FILTER" :> <<md.bandpass>>)
        ELSE fit

\* Band indices counted from one.
FiltNumFromOne(bp) ==
    IF ~IsListBandpass(bp) THEN FiltNums[bp] + 1 ELSE ListFiltNum

\* filt_num: the band's index for a single bandpass, 2 for a list.
FiltNum(bp) ==
    IF ~IsListBandpass(bp) THEN FiltNums[bp] ELSE ListFiltNum

\* The header after the part of the wcs property that follows the
\* construction; raised tells whether the band lookup raised KeyError.
EnrichHeader(d, md, header) ==
    IF ~MatchesRaftSensor(fileName(d))
    THEN [header |-> header, raised |-> FALSE]
    ELSE LET wcsName == ChipId(fileName(d))
             h1 == ("CHIPID" :> wcsName) @@ header
             h2 == IF HasObsHistId(md)
                   THEN ("OBSID" :> md.phoSimMetaData.obshistid) @@ h1
                   ELSE h1
             obshistid == IF HasObsHistId(md) THEN md.phoSimMetaData.obshistid
                          ELSE DefaultObsHistId
             bp == md.bandpass
         IN  IF ~IsListBandpass(bp) /\ bp \notin DOMAIN FiltNums
             THEN [header |-> h2, raised |-> TRUE]
             ELSE [header |-> ("OUTFILE" :> OutName(obshistid, FiltNum(bp), wcsName)) @@ h2,
                   raised |-> FALSE]

(***************************************************************************)
(* The session's mutable state as a value S, so that a handler's steps can *)
(* be composed: [wcs, wcsFits, blankImageCache, detectorImages, heap,      *)
(* rngPos, exc, ret] with the session's fixed parts md (obs_metadata), nw  *)
(* (noiseWrapper) and seeded.  exc is "" until a step raises.              *)
(***************************************************************************)
\* The first statement under `if self._wcs is None`: a TAN-SIP WCS is fitted
\* and assigned to self._wcs.  The instance is named by the detector and by
\* how many have been fitted for it.
WcsConstruct(S, d) ==
    [S EXCEPT !.wcs[d] = [isNone |-> FALSE, id |-> <<d, S.wcsFits[d] + 1>>,
                          fitsHeader |-> BaseHeader(d, S.md)],
              !.wcsFits[d] = @ + 1]

\* The rest of the `if` body: the header of whatever self._wcs now holds is
\* enriched; a band lookup that fails raises KeyError after CHIPID and OBSID.
WcsEnrich(S, d) ==
    Bind(EnrichHeader(d, S.md, S.wcs[d].fitsHeader), LAMBDA e :
        [S EXCEPT !.wcs[d].fitsHeader = e.header,
                  !.exc = IF e.raised THEN "KeyError" ELSE ""])

\* return self._wcs
WcsReturn(S, d) ==
    IF S.exc # "" THEN S ELSE [S EXCEPT !.ret = S.wcs[d].id]

\* A getter without the test of `self._wcs is None`.
WcsGetRefit(S, d) ==
    Bind(WcsConstruct(S, d), LAMBDA S1 :
    Bind(WcsEnrich(S1, d), LAMBDA S2 : WcsReturn(S2, d)))

\* The wcs property of detector d (the whole getter).
WcsGet(S, d) ==
    IF ~S.wcs[d].isNone
    THEN WcsReturn(S, d)
    ELSE Bind(WcsConstruct(S, d), LAMBDA S1 :
         Bind(WcsEnrich(S1, d), LAMBDA S2 : WcsReturn(S2, d)))

\* galsim.Image(nx, ny, wcs=w): a zero-filled buffer.  A buffer's pixels are
\* described by what has been added to them, in order: the noise wrapper's
\* sky and noise, and footprints, each of a flux and drawn at a position
\* of the random stream.
NewImage(d, w) ==
    [ nx |-> detectors[d].xMaxPix - detectors[d].xMinPix + 1,
      ny |-> detectors[d].yMaxPix - detectors[d].yMinPix + 1,
      wcs |-> w, added |-> <<>> ]

\* A copy that is no copy: the buffer itself is handed out.
CopyImageShared(S, b) ==
    [S EXCEPT !.ret = b]

\* image.copy(): a new buffer with the same content; ret is the new buffer.
CopyImage(S, b) ==
    [S EXCEPT !.heap = Append(@, S.heap[b]), !.ret = Len(S.heap) + 1]

\* A first call that rebinds blankImageCache to a dict of the new image alone.
FirstBlankImageAlone(S1, d) ==
    IF S1.exc # "" THEN S1
    ELSE Bind([S1 EXCEPT !.heap = Append(@, NewImage(d, S1.ret)),
                         !.blankImageCache = (detectors[d].name :> Len(S1.heap) + 1)],
              LAMBDA S2 : CopyImage(S2, S2.blankImageCache[detectors[d].name]))

\* The else branch of blankImage, S1 being the state after detector.wcs.
FirstBlankImage(S1, d) ==
    IF S1.exc # "" THEN S1
    ELSE Bind([S1 EXCEPT !.heap = Append(@, NewImage(d, S1.ret)),
                         !.blankImageCache = (detectors[d].name :> Len(S1.heap) + 1) @@ @],
              LAMBDA S2 : CopyImage(S2, S2.blankImageCache[detectors[d].name]))

\* blankImage(detector)
blankImage(S, d) ==
    IF detectors[d].name \in DOMAIN S.blankImageCache
    THEN CopyImage(S, S.blankImageCache[detectors[d].name])
    ELSE Bind(WcsGet(S, d), LAMBDA S1 : FirstBlankImage(S1, d))

\* GalSimInterpreter.bandpassDict, in its iteration order
bandpassDict == <<"u", "g">>

\* GalSimInterpreter._getFileName
FileNameOf(d, bandpassName) ==
    fileName(d) \o <<"_">> \o <<bandpassName>> \o <<".", "f", "i", "t", "s">>

FileNameTable == [d \in DetIds, b \in SeqToSet(bandpassDict) |-> FileNameOf(d, b)]

getFileName(d, bandpassName) == FileNameTable[d, bandpassName]

\* noiseWrapper.addNoiseAndBackground(image, ...): sky and noise are added
\* to the image handed in, which is returned.
addNoiseAndBackground(S, b) ==
    [S EXCEPT !.heap[b].added = Append(@, [what |-> "noise", flux |-> 0, rng |-> 0]),
              !.ret = b]

\* The body of drawObject's first loop once blankImage has returned (S1).
StoreImage(S1, name) ==
    IF S1.exc # "" THEN S1
    ELSE Bind([S1 EXCEPT !.detectorImages = (name :> S1.ret) @@ @], LAMBDA S2 :
            IF S2.nw = "None" THEN S2
            ELSE Bind(addNoiseAndBackground(S2, S2.detectorImages[name]), LAMBDA S3 :
                    [S3 EXCEPT !.detectorImages[name] = S3.ret]))

\* A first loop that applies the noise wrapper to an image it already has.
InitImageRenoise(S, d, bandpassName) ==
    IF getFileName(d, bandpassName) \in DOMAIN S.detectorImages
    THEN IF S.nw = "None" THEN S
         ELSE addNoiseAndBackground(S, S.detectorImages[getFileName(d, bandpassName)])
    ELSE Bind(blankImage(S, d), LAMBDA S1 :
            StoreImage(S1, getFileName(d, bandpassName)))

\* The body of drawObject's first loop for one detector and bandpass.
InitImage(S, d, bandpassName) ==
    IF getFileName(d, bandpassName) \in DOMAIN S.detectorImages THEN S
    ELSE Bind(blankImage(S, d), LAMBDA S1 :
            StoreImage(S1, getFileName(d, bandpassName)))

\* A draw with add_to_image=False: the footprint replaces the buffer's content.
AddToImageReplacing(S, b, flux) ==
    [S EXCEPT !.heap[b].added = <<[what |-> "footprint", flux |-> flux,
                                   rng |-> S.rngPos]>>,
              !.rngPos = IF S.seeded THEN @ + 1 ELSE @,
              !.ret = b]

\* obj.drawImage(method='phot', image=b, add_to_image=True): the footprint
\* is added to the buffer, which is returned.
AddToImage(S, b, flux) ==
    [S EXCEPT !.heap[b].added = Append(@, [what |-> "footprint", flux |-> flux,
                                            rng |-> S.rngPos]),
              !.rngPos = IF S.seeded THEN @ + 1 ELSE @,
              !.ret = b]

\* The body of drawObject's second loop for one bandpass and detector.
DrawOne(S, gsObject, d, bandpassName) ==
    IF bandpassName \notin DOMAIN gsObject.fluxDict
    THEN [S EXCEPT !.exc = "RuntimeError"]
    ELSE Bind(AddToImage(S, S.detectorImages[getFileName(d, bandpassName)],
                         gsObject.fluxDict[bandpassName]),
              LAMBDA S1 : [S1 EXCEPT !.detectorImages[getFileName(d, bandpassName)] = S1.ret])

\* The pairs a nested loop visits, outer first: for x in xs: for y in ys.
Nested(xs, ys) == Flatten([i \in DOMAIN xs |-> [j \in DOMAIN ys |-> <<xs[i], ys[j]>>]])

RECURSIVE InitImages(_, _)
InitImages(S, pairs) ==
    IF pairs = <<>> \/ S.exc # "" THEN S
    ELSE Bind(InitImage(S, Head(pairs)[1], Head(pairs)[2]),
              LAMBDA S1 : InitImages(S1, Tail(pairs)))

RECURSIVE DrawAll(_, _, _)
DrawAll(S, gsObject, pairs) ==
    IF pairs = <<>> \/ S.exc # "" THEN S
    ELSE Bind(DrawOne(S, gsObject, Head(pairs)[2], Head(pairs)[1]),
              LAMBDA S1 : DrawAll(S1, gsObject, Tail(pairs)))

(***************************************************************************)
(* The inputs: celestial objects and the test images their render gives.   *)
(***************************************************************************)
GsObject(type, sed, x, y, fluxDict) ==
    [ galSimType |-> type, sed |-> sed,
      xPupilArcsec |-> x, yPupilArcsec |-> y, fluxDict |-> fluxDict ]

\* A test image: the central pixel holds c, one more pixel p holds v.
CentralPixel(n) == <<n \div 2 - 1, n \div 2 - 1>>

TestImage(n, c, p, v) ==
    [ n |-> n,
      array |-> [q \in Pixels(n) |->
                    IF q = CentralPixel(n) THEN c ELSE IF q = p THEN v ELSE 0] ]

TestImages ==
    { TestImage(ImgSize, c, p, v) :
        c \in {0, 1, 2000}, p \in Pixels(ImgSize) \ {CentralPixel(ImgSize)},
        v \in {0, 1, 2000} }
    \ { TestImage(ImgSize, 0, CentralPixel(ImgSize), 0) }

\* Sersic objects on, near and far from the detectors; a point source and
\* an object of another kind on a detector and on the shared edge.
LocObjects ==
    { GsObject("sersic", "sed", x, y, [b \in {"u", "g"} |-> 1]) :
        x \in {8, 14, 16, 18, 60}, y \in {8, 14, 18, 60} }
    \cup { GsObject(t, "sed", x, 8, [b \in {"u", "g"} |-> 1]) :
        t \in {"pointSource", "galaxyBulge"}, x \in {8, 16} }

(***************************************************************************)
(* The findAllDetectors calls: a caller hands an object to the locator,    *)
(* the locator returns.                                                    *)
(***************************************************************************)
LocIdle == [phase |-> "idle"]

LocCall(gsObject, img, psf) ==
    /\ loc.phase = "idle"
    /\ loc' = [phase |-> "called", gsObject |-> gsObject, img |-> img, psf |-> psf]
    /\ UNCHANGED <<obs_metadata, noiseWrapper, seeded, PSF, rngPos, wcs, wcsFits,
                   blankImageCache, detectorImages, heap, last, drawn, held, thr>>

LocReturn ==
    /\ loc.phase = "called"
    /\ loc' = [phase |-> "returned", gsObject |-> loc.gsObject, img |-> loc.img,
               psf |-> loc.psf,
               result |-> findAllDetectors(loc.gsObject, loc.img, loc.psf)]
    /\ UNCHANGED <<obs_metadata, noiseWrapper, seeded, PSF, rngPos, wcs, wcsFits,
                   blankImageCache, detectorImages, heap, last, drawn, held, thr>>

\* last for a call that is no drawObject: a read of the wcs of detector d,
\* cached telling whether the WCS had been built before.
NoCall(op, d, cached) ==
    [op |-> op, exc |-> "", ret |-> [isNone |-> TRUE, s |-> <<>>],
     galSimType |-> "", sed |-> "", found |-> 0, d |-> d, cached |-> cached]

NoWcs == [isNone |-> TRUE, id |-> <<0, 0>>, fitsHeader |-> EmptyDict]

\* The state after GalSimInterpreter.__init__ and the detectors' __init__.
InitState ==
    /\ PSF = "None"
    /\ rngPos = 0
    /\ wcs = [d \in DetIds |-> NoWcs]
    /\ wcsFits = [d \in DetIds |-> 0]
    /\ blankImageCache = EmptyDict
    /\ detectorImages = EmptyDict
    /\ heap = <<>>
    /\ last = NoCall("init", 0, FALSE)
    /\ drawn = [n |-> 0, partial |-> FALSE, expected |-> EmptyDict]
    /\ held = <<>>

Threads == {1, 2}

ThrIdle == [t \in Threads |-> [pc |-> "idle", d |-> 0, ret |-> <<>>]]

InitSession ==
    /\ obs_metadata = [bandpass |-> "u", phoSimMetaData |-> PhoSim(112)]
    /\ noiseWrapper = "None"
    /\ seeded = TRUE
    /\ InitState
    /\ thr = ThrIdle

InitLocate == InitSession /\ loc = LocIdle

NextLocate ==
    \/ \E o \in LocObjects, img \in TestImages, psf \in {"None", "psf"} :
            LocCall(o, img, psf)
    \/ LocReturn

SpecLocate == InitLocate /\ [][NextLocate]_vars

Located == loc.phase = "returned" /\ loc.result.kind = "tuple"

(***************************************************************************)
(* C1: for every object with a drawable profile and every detector D of    *)
(* the detector list, findAllDetectors reports D as illuminated if and     *)
(* only if some active pixel of the test image falls inside D (the         *)
(* per-pixel check of _doesObjectImpingeOnDetector): the two bounding-box  *)
(* passes discard no detector that holds an active pixel.                  *)
(***************************************************************************)
C1_IlluminatedIffActivePixelInside ==
    Located =>
        \A d \in DetIds :
            (d \in SeqToSet(loc.result.outputList))
                <=> Impinges(loc.gsObject, loc.img, activePixels(loc.img), d)


(***************************************************************************)
(* The session: the calls a catalog makes on one GalSimInterpreter and on  *)
(* its detectors.  Each action is one whole call.                          *)
(***************************************************************************)
Cur ==
    [ md |-> obs_metadata, nw |-> noiseWrapper, seeded |-> seeded,
      wcs |-> wcs, wcsFits |-> wcsFits, blankImageCache |-> blankImageCache,
      detectorImages |-> detectorImages, heap |-> heap, rngPos |-> rngPos,
      exc |-> "", ret |-> 0 ]

Commit(S) ==
    /\ wcs' = S.wcs
    /\ wcsFits' = S.wcsFits
    /\ blankImageCache' = S.blankImageCache
    /\ detectorImages' = S.detectorImages
    /\ heap' = S.heap
    /\ rngPos' = S.rngPos

\* centeredObj.drawImage(scale=testScale, method='phot', rng=self._rng)
TestRender(S) == [S EXCEPT !.rngPos = IF S.seeded THEN @ + 1 ELSE @]

\* Loops that are entered whether or not the object has a sed.
drawLoopsWithoutSed(S, gsObject, r) ==
    Bind([TestRender(S) EXCEPT !.ret = [isNone |-> r.isNone, s |-> r.outputString]],
         LAMBDA S0 :
            IF Len(r.outputList) = 0 THEN S0
            ELSE Bind(InitImages(S0, Nested(r.outputList, bandpassDict)), LAMBDA S1 :
                 Bind(DrawAll(S1, gsObject, Nested(bandpassDict, r.outputList)), LAMBDA S2 :
                    [S2 EXCEPT !.ret = IF S2.exc = "" THEN S0.ret
                                       ELSE [isNone |-> TRUE, s |-> <<>>]])))

\* The part of drawObject that follows findAllDetectors, which returned r.
drawLoops(S, gsObject, r) ==
    Bind([TestRender(S) EXCEPT !.ret = [isNone |-> r.isNone, s |-> r.outputString]],
         LAMBDA S0 :
            IF gsObject.sed = "None" \/ Len(r.outputList) = 0 THEN S0
            ELSE Bind(InitImages(S0, Nested(r.outputList, bandpassDict)), LAMBDA S1 :
                 Bind(DrawAll(S1, gsObject, Nested(bandpassDict, r.outputList)), LAMBDA S2 :
                    [S2 EXCEPT !.ret = IF S2.exc = "" THEN S0.ret
                                       ELSE [isNone |-> TRUE, s |-> <<>>]])))

\* drawObject(gsObject) from state S, r being what findAllDetectors returns.
\* ret is the returned outputString ([isNone, s]).
drawObject(S, gsObject, r) ==
    IF r.kind = "raise"
    THEN [S EXCEPT !.exc = "RuntimeError", !.ret = [isNone |-> TRUE, s |-> <<>>]]
    ELSE IF r.kind = "None"
    THEN [S EXCEPT !.exc = "TypeError", !.ret = [isNone |-> TRUE, s |-> <<>>]]
    ELSE drawLoops(S, gsObject, r)

\* What the images are expected to hold after a call that illuminated the
\* detectors of outputList: the object's flux in each bandpass, added.
Expect(expected, gsObject, outputList) ==
    [name \in DOMAIN expected \cup
              {getFileName(outputList[i], bandpassDict[j]) :
                   i \in DOMAIN outputList, j \in DOMAIN bandpassDict} |->
        (IF name \in DOMAIN expected THEN expected[name] ELSE 0)
        + (IF \E i \in DOMAIN outputList, j \in DOMAIN bandpassDict :
                  name = getFileName(outputList[i], bandpassDict[j])
           THEN gsObject.fluxDict[bandpassDict[CHOOSE j \in DOMAIN bandpassDict :
                    \E i \in DOMAIN outputList :
                        name = getFileName(outputList[i], bandpassDict[j])]]
           ELSE 0)]

DrawObject(gsObject, img) ==
    /\ drawn.n < MaxDraws
    /\ \E r \in {findAllDetectors(gsObject, img, PSF)} :
       \E S \in {drawObject(Cur, gsObject, r)} :
          /\ Commit(S)
          /\ last' = [op |-> "drawObject", exc |-> S.exc, ret |-> S.ret,
                      galSimType |-> gsObject.galSimType, sed |-> gsObject.sed,
                      found |-> Len(r.outputList), d |-> 0, cached |-> FALSE]
          /\ drawn' = [n |-> drawn.n + 1,
                       partial |-> drawn.partial \/ (S.exc # "" /\ r.kind = "tuple"),
                       expected |->
                          IF S.exc # "" \/ gsObject.sed = "None" \/ Len(r.outputList) = 0
                          THEN drawn.expected
                          ELSE Expect(drawn.expected, gsObject, r.outputList)]
    /\ UNCHANGED <<obs_metadata, noiseWrapper, seeded, PSF, held, loc, thr>>

BlankImage(d) ==
    /\ Len(held) < MaxBlank
    /\ \E S \in {blankImage(Cur, d)} :
          /\ Commit(S)
          /\ held' = IF S.exc = "" THEN Append(held, S.ret) ELSE held
    /\ UNCHANGED <<obs_metadata, noiseWrapper, seeded, PSF, last, drawn, loc, thr>>

\* The caller draws into a buffer that blankImage gave it.
MutateHeld(i) ==
    /\ i \in DOMAIN held
    /\ heap[held[i]].added = <<>>
    /\ heap' = [heap EXCEPT ![held[i]].added =
                    Append(@, [what |-> "footprint", flux |-> 1, rng |-> 0])]
    /\ UNCHANGED <<obs_metadata, noiseWrapper, seeded, PSF, rngPos, wcs, wcsFits,
                   blankImageCache, detectorImages, last, drawn, held, loc, thr>>

\* A read of detector.wcs
WcsRead(d) ==
    /\ \E S \in {WcsGet(Cur, d)} :
          /\ Commit(S)
          /\ last' = [NoCall("wcs", d, ~wcs[d].isNone) EXCEPT !.exc = S.exc,
                                                               !.ret = S.ret]
    /\ UNCHANGED <<obs_metadata, noiseWrapper, seeded, PSF, drawn, held, loc, thr>>

SetPSF(psf) ==
    /\ PSF' = psf
    /\ UNCHANGED <<obs_metadata, noiseWrapper, seeded, rngPos, wcs, wcsFits,
                   blankImageCache, detectorImages, heap, last, drawn, held, loc, thr>>

\* The pointings and the catalog rows of the sessions studied.
SessionMetaData ==
    { [bandpass |-> bp, phoSimMetaData |-> PhoSim(112)] : bp \in {"u", "None"} }

FullFlux == [b \in {"u", "g"} |-> IF b = "u" THEN 1 ELSE 2]

CatalogObjects ==
    { GsObject("sersic", "sed", 8, 8, FullFlux),
      GsObject("sersic", "sed", 16, 8, FullFlux),
      GsObject("sersic", "sed", 16, 8, [b \in {"u"} |-> 1]),
      GsObject("pointSource", "sed", 8, 8, FullFlux),
      GsObject("galaxyBulge", "sed", 8, 8, FullFlux),
      GsObject("sersic", "None", 8, 8, FullFlux),
      GsObject("sersic", "sed", 60, 60, FullFlux) }

\* The test image of a catalog row: a bright centre and, when wide, a
\* second bright pixel to the side.
CatalogImage(v) == TestImage(ImgSize, 2000, <<ImgSize - 1, 1>>, v)

\* The rows drawn: every object with a narrow test image, and the objects on
\* the edge between the detectors with a wide one too.
CatalogRows ==
    { <<o, CatalogImage(0)>> : o \in CatalogObjects }
    \cup { <<o, CatalogImage(2000)>> : o \in {c \in CatalogObjects : c.xPupilArcsec = 16} }

Init ==
    /\ obs_metadata \in SessionMetaData
    /\ noiseWrapper \in {"None", "noise"}
    /\ seeded = TRUE
    /\ InitState
    /\ loc = LocIdle
    /\ thr = ThrIdle

Next ==
    \/ \E row \in CatalogRows : DrawObject(row[1], row[2])
    \/ \E d \in DetIds : BlankImage(d)
    \/ \E i \in DOMAIN held : MutateHeld(i)
    \/ SetPSF("psf")

Spec == Init /\ [][Next]_vars

(***************************************************************************)
(* The wcs property on its own, under every kind of pointing: a single     *)
(* bandpass that is or is not one of the six LSST bands, a list of         *)
(* bandpasses, none; phoSimMetaData absent, without and with an            *)
(* Opsim_obshistid.                                                        *)
(***************************************************************************)
SixBands == {"u", "g", "r", "i", "z", "y"}

WcsMetaData ==
    { [bandpass |-> bp, phoSimMetaData |-> ph] :
        bp \in SixBands \cup {"list", "None", "x"},
        ph \in {PhoSimNone, PhoSimEmpty, PhoSim(112), PhoSim(7)} }

InitWcs ==
    /\ obs_metadata \in WcsMetaData
    /\ noiseWrapper = "None"
    /\ seeded = TRUE
    /\ InitState
    /\ loc = LocIdle
    /\ thr = ThrIdle

\* An object on the edge that detectors 1 and 2 share, lighting both.
WcsObject == GsObject("sersic", "sed", 16, 8, FullFlux)

WcsImage == TestImage(ImgSize, 2000, <<ImgSize - 1, 1>>, 2000)

NextWcs ==
    \/ \E d \in DetIds : WcsRead(d)
    \/ \E d \in DetIds : BlankImage(d)
    \/ DrawObject(WcsObject, WcsImage)

SpecWcs == InitWcs /\ [][NextWcs]_vars

(***************************************************************************)
(* Two threads reading detector.wcs.  The getter takes no lock, so a       *)
(* thread can be preempted between its statements: the test of             *)
(* `self._wcs is None`, the construction and assignment, the enrichment of *)
(* self._wcs.fitsHeader, the return.                                       *)
(***************************************************************************)
ThrCommit(S) ==
    /\ wcs' = S.wcs
    /\ wcsFits' = S.wcsFits
    /\ UNCHANGED <<obs_metadata, noiseWrapper, seeded, PSF, rngPos, blankImageCache,
                   detectorImages, heap, last, drawn, held, loc>>

\* thread t starts reading detectors[d].wcs
ThrCall(t, d) ==
    /\ thr[t].pc = "idle"
    /\ thr' = [thr EXCEPT ![t] = [pc |-> "test", d |-> d, ret |-> <<>>]]
    /\ ThrCommit(Cur)

\* if self._wcs is None:
ThrTest(t) ==
    /\ thr[t].pc = "test"
    /\ thr' = [thr EXCEPT ![t].pc = IF wcs[thr[t].d].isNone THEN "construct"
                                    ELSE "return"]
    /\ ThrCommit(Cur)

ThrConstruct(t) ==
    /\ thr[t].pc = "construct"
    /\ thr' = [thr EXCEPT ![t].pc = "enrich"]
    /\ ThrCommit(WcsConstruct(Cur, thr[t].d))

ThrEnrich(t) ==
    /\ thr[t].pc = "enrich"
    /\ \E S \in {WcsEnrich(Cur, thr[t].d)} :
          /\ thr' = [thr EXCEPT ![t].pc = IF S.exc # "" THEN "raised" ELSE "return"]
          /\ ThrCommit(S)

ThrReturn(t) ==
    /\ thr[t].pc = "return"
    /\ \E S \in {WcsReturn(Cur, thr[t].d)} :
          /\ thr' = [thr EXCEPT ![t].pc = "done", ![t].ret = S.ret]
          /\ ThrCommit(S)

ThreadsMetaData ==
    { [bandpass |-> bp, phoSimMetaData |-> PhoSim(112)] : bp \in {"u", "list", "None"} }

InitThreads ==
    /\ obs_metadata \in ThreadsMetaData
    /\ noiseWrapper = "None"
    /\ seeded = TRUE
    /\ InitState
    /\ loc = LocIdle
    /\ thr = ThrIdle

NextThreads ==
    \/ \E t \in Threads, d \in DetIds : ThrCall(t, d)
    \/ \E t \in Threads : ThrTest(t)
    \/ \E t \in Threads : ThrConstruct(t)
    \/ \E t \in Threads : ThrEnrich(t)
    \/ \E t \in Threads : ThrReturn(t)

SpecThreads == InitThreads /\ [][NextThreads]_vars

\* C8: when two threads first read the wcs of one detector at the same
\* time, one WCS is fitted and both get that same instance.
C8_ConcurrentFirstAccessBuildsOne ==
    /\ \A d \in DetIds : wcsFits[d] <= 1
    /\ (thr[1].pc = "done" /\ thr[2].pc = "done" /\ thr[1].d = thr[2].d)
            => thr[1].ret = thr[2].ret

(***************************************************************************)
(* What a buffer holds, read off the additions made to it.                 *)
(***************************************************************************)
Footprints(b) == SelectSeq(heap[b].added, LAMBDA a : a.what = "footprint")

RECURSIVE SumFlux(_)
SumFlux(adds) == IF adds = <<>> THEN 0 ELSE Head(adds).flux + SumFlux(Tail(adds))

FluxOf(b) == SumFlux(Footprints(b))

NoiseCount(b) == Len(SelectSeq(heap[b].added, LAMBDA a : a.what = "noise"))

ProvenanceFields == {"CHIPID", "OBSID", "OUTFILE"}

DrawStep == drawn'.n = drawn.n + 1

\* A drawObject call that returned having found no detector or no sed.
NoOpDraw ==
    /\ DrawStep
    /\ last'.exc = ""
    /\ (last'.found = 0 \/ last'.sed = "None")

(***************************************************************************)
(* Sessions of drawObject and blankImage calls (Spec).                     *)
(***************************************************************************)
\* C2: a drawObject call on an object whose shape kind is neither sersic
\* nor pointSource does not raise.
C2_UnsupportedShapeDoesNotRaise ==
    (last.op = "drawObject" /\ last.galSimType \notin {"sersic", "pointSource"})
        => last.exc = ""

C4_NoOpDrawLeavesSessionAsItWas ==
    [][NoOpDraw => UNCHANGED <<detectorImages, blankImageCache, heap, wcs, wcsFits,
                               rngPos>>]_vars

\* C4 amended: such a call changes neither cache, no buffer and no WCS, but
\* its test render advances the session's random stream by one draw.
C4_NoOpDrawLeavesCachesAsTheyWere ==
    [][NoOpDraw => /\ UNCHANGED <<detectorImages, blankImageCache, heap, wcs, wcsFits>>
                   /\ rngPos' = IF seeded THEN rngPos + 1 ELSE rngPos]_vars

\* An object that lands on no detector has been drawn after one that
\* filled composites.
C4_Witness ==
    /\ last.op = "drawObject" /\ last.exc = "" /\ last.found = 0
    /\ drawn.n = 2
    /\ DOMAIN detectorImages # {}

\* C5: with a noise wrapper every composite has had the noise applied
\* exactly once, before any footprint; without one no composite has any.
\* No other buffer (template, buffer handed to a caller) has noise.
C5_NoiseOncePerKeyAtCreation ==
    /\ \A name \in DOMAIN detectorImages :
          IF noiseWrapper = "None"
          THEN NoiseCount(detectorImages[name]) = 0
          ELSE /\ NoiseCount(detectorImages[name]) = 1
               /\ heap[detectorImages[name]].added[1].what = "noise"
    /\ \A b \in DOMAIN heap :
          (\A name \in DOMAIN detectorImages : detectorImages[name] # b)
              => NoiseCount(b) = 0

\* With a noise wrapper, a second object has illuminated a key.
C5_Witness ==
    /\ noiseWrapper # "None"
    /\ \E name \in DOMAIN detectorImages : Len(Footprints(detectorImages[name])) = 2

\* C6: the templates of blankImageCache stay zero-filled, and the
\* templates, the composites and the buffers handed to callers are all
\* different buffers.
C6_BlankImagesAreIndependent ==
    /\ \A name \in DOMAIN blankImageCache : heap[blankImageCache[name]].added = <<>>
    /\ \A n1, n2 \in DOMAIN detectorImages :
          detectorImages[n1] = detectorImages[n2] => n1 = n2
    /\ \A i, j \in DOMAIN held : held[i] = held[j] => i = j
    /\ \A name \in DOMAIN blankImageCache :
          /\ \A n \in DOMAIN detectorImages : detectorImages[n] # blankImageCache[name]
          /\ \A i \in DOMAIN held : held[i] # blankImageCache[name]
    /\ \A n \in DOMAIN detectorImages, i \in DOMAIN held : held[i] # detectorImages[n]

\* A caller has drawn into the buffer it was given and an object has been
\* drawn into a composite, both copies of a template.
C6_Witness ==
    /\ \E i \in DOMAIN held : heap[held[i]].added # <<>>
    /\ \E name \in DOMAIN detectorImages : FluxOf(detectorImages[name]) > 0
    /\ DOMAIN blankImageCache # {}

(***************************************************************************)
(* Reads of the wcs property (SpecWcs).                                    *)
(***************************************************************************)
\* C7: at most one WCS is ever fitted for a detector, the detector holds
\* that first instance from then on, and every read returns it.
C7_WcsMemoized ==
    /\ \A d \in DetIds :
          /\ wcsFits[d] <= 1
          /\ wcs[d].isNone <=> wcsFits[d] = 0
          /\ ~wcs[d].isNone => wcs[d].id = <<d, 1>>
    /\ (last.op = "wcs" /\ last.exc = "") => last.ret = <<last.d, 1>>

\* The wcs of a detector has been read again after it was built, and an
\* object has been drawn on the detector.
C7_Witness ==
    /\ last.op = "wcs" /\ last.cached /\ last.exc = ""
    /\ detectors[last.d].name \in DOMAIN blankImageCache
    /\ drawn.n > 0

\* C9: the header of a built WCS has CHIPID, OBSID and OUTFILE when the
\* detector's file name matches the raft/sensor pattern, CHIPID being the
\* re-punctuated name and OBSID the Opsim_obshistid or else the placeholder;
\* it has none of the three when the name does not match.
C9_ProvenanceFieldsIffPatternMatches ==
    \A d \in DetIds :
        ~wcs[d].isNone =>
            IF MatchesRaftSensor(fileName(d))
            THEN /\ ProvenanceFields \subseteq DOMAIN wcs[d].fitsHeader
                 /\ wcs[d].fitsHeader["CHIPID"] = <<"R", "2", "2", "_", "S", "1", "1">>
                 /\ wcs[d].fitsHeader["OBSID"] =
                        IF HasObsHistId(obs_metadata)
                        THEN obs_metadata.phoSimMetaData.obshistid
                        ELSE DefaultObsHistId
            ELSE ProvenanceFields \cap DOMAIN wcs[d].fitsHeader = {}

\* C10: for the detector R:2,2 S:1,1 and a bandpass that is one of the six
\* bands or a list, OUTFILE is lsst_e_<obsid>_f<n>_R22_S11_E000, the obsid
\* being 9999 when the pointing has none and n the band's index, or 2 for a
\* list.
C10_OutFileName ==
    (~wcs[1].isNone /\ obs_metadata.bandpass \in SixBands \cup {"list"}) =>
        /\ "OUTFILE" \in DOMAIN wcs[1].fitsHeader
        /\ wcs[1].fitsHeader["OUTFILE"] =
              <<"l", "s", "s", "t", "_", "e", "_">>
              \o (CASE ~HasObsHistId(obs_metadata) -> <<"9", "9", "9", "9">>
                    [] HasObsHistId(obs_metadata)
                       /\ obs_metadata.phoSimMetaData.obshistid = 112 -> <<"1", "1", "2">>
                    [] HasObsHistId(obs_metadata)
                       /\ obs_metadata.phoSimMetaData.obshistid = 7 -> <<"7">>)
              \o <<"_", "f">>
              \o (CASE obs_metadata.bandpass = "u" -> <<"0">>
                    [] obs_metadata.bandpass = "g" -> <<"1">>
                    [] obs_metadata.bandpass = "r" -> <<"2">>
                    [] obs_metadata.bandpass = "i" -> <<"3">>
                    [] obs_metadata.bandpass = "z" -> <<"4">>
                    [] obs_metadata.bandpass = "y" -> <<"5">>
                    [] obs_metadata.bandpass = "list" -> <<"2">>)
              \o <<"_", "R", "2", "2", "_", "S", "1", "1", "_", "E", "0", "0", "0">>

\* The WCS of R:2,2 S:1,1 has been built for a pointing in the y band that
\* has no Opsim_obshistid.
C10_Witness ==
    /\ ~wcs[1].isNone
    /\ obs_metadata.bandpass = "y"
    /\ ~HasObsHistId(obs_metadata)
    /\ "OUTFILE" \in DOMAIN wcs[1].fitsHeader

(***************************************************************************)
(* Calls of the detector's containment tests.  A sky position is the pupil *)
(* position displaced by the pointing (the astrometry is another           *)
(* package's); the caller hands in one or two coordinates.                 *)
(***************************************************************************)
\* A call that touches nothing of the session.
PureFrame ==
    UNCHANGED <<obs_metadata, noiseWrapper, seeded, PSF, rngPos, wcs, wcsFits,
                blankImageCache, detectorImages, heap, last, drawn, held, thr>>

Pointing == <<2, 6>>

\* _pixelCoordsFromRaDec for one detector, as doubled pixel coordinates
pixelCoordinatesFromRaDec(d, ra, dec) ==
    pixelCoordinatesFromPupilCoordinates(d, ra - Pointing[1], dec - Pointing[2])

\* answer = [self._bbox.contains(pp) for pp in points], with a box closed
\* above too
ContainsAllClosed(d, points) ==
    [i \in DOMAIN points |->
        /\ 2 * detectors[d].xMinPix - 1 <= points[i][1]
        /\ points[i][1] <= 2 * detectors[d].xMaxPix + 1
        /\ 2 * detectors[d].yMinPix - 1 <= points[i][2]
        /\ points[i][2] <= 2 * detectors[d].yMaxPix + 1]

\* answer = [self._bbox.contains(pp) for pp in points]
ContainsAll(d, points) == [i \in DOMAIN points |-> BBoxContains(d, points[i])]

\* GalSimDetector.containsPupilCoordinates on arrays xPupil, yPupil
containsPupilCoordinatesList(d, xPupil, yPupil) ==
    ContainsAll(d, [i \in DOMAIN xPupil |->
                       pixelCoordinatesFromPupilCoordinates(d, xPupil[i], yPupil[i])])

\* GalSimDetector.containsRaDec on arrays ra, dec
containsRaDec(d, ra, dec) ==
    ContainsAll(d, [i \in DOMAIN ra |-> pixelCoordinatesFromRaDec(d, ra[i], dec[i])])

\* The pupil coordinates handed in: the centres of the first and last
\* pixels of both detectors, the centres one pixel beyond, and the edges.
PupilXs == {-2, 0, 2, 14, 16, 18, 30, 32, 34}

PupilYs == {-2, 0, 2, 14, 16, 18}

PupilPoints == PupilXs \X PupilYs

\* One coordinate, or a coordinate followed by the one a detector pixel
\* further in x or a detector pixel back in y.
PointLists ==
    {<<p>> : p \in PupilPoints}
    \cup {<<p, <<p[1] + PixelSize, p[2]>> >> : p \in PupilPoints}
    \cup {<<p, <<p[1], p[2] - PixelSize>> >> : p \in PupilPoints}

ContainsCall(method, d, points) ==
    /\ loc.phase = "idle"
    /\ loc' = [phase |-> "called", method |-> method, d |-> d,
               x |-> [i \in DOMAIN points |->
                        points[i][1] + IF method = "containsRaDec" THEN Pointing[1] ELSE 0],
               y |-> [i \in DOMAIN points |->
                        points[i][2] + IF method = "containsRaDec" THEN Pointing[2] ELSE 0]]
    /\ PureFrame

ContainsReturn ==
    /\ loc.phase = "called"
    /\ loc' = [phase |-> "returned", method |-> loc.method, d |-> loc.d,
               x |-> loc.x, y |-> loc.y,
               answer |-> IF loc.method = "containsRaDec"
                          THEN containsRaDec(loc.d, loc.x, loc.y)
                          ELSE containsPupilCoordinatesList(loc.d, loc.x, loc.y)]
    /\ PureFrame

NextContains ==
    \/ \E m \in {"containsRaDec", "containsPupilCoordinates"}, d \in DetIds,
          points \in PointLists : ContainsCall(m, d, points)
    \/ ContainsReturn

SpecContains == InitLocate /\ [][NextContains]_vars

\* Twice the pixel position, on detector d, of the i-th coordinate of the
\* call that returned: the pupil position counted in half pixels from the
\* centre of pixel (xMinPix, yMinPix).
PixelPos2(i) ==
    LET px == loc.x[i] - (IF loc.method = "containsRaDec" THEN Pointing[1] ELSE 0)
        py == loc.y[i] - (IF loc.method = "containsRaDec" THEN Pointing[2] ELSE 0)
        dd == detectors[loc.d]
    IN  << 2 * dd.xMinPix + (px - dd.xMinArcsec - TestScale) \div TestScale,
           2 * dd.yMinPix + (py - dd.yMinArcsec - TestScale) \div TestScale >>

TestImageBox(gsObject, img) ==
    [ xmin |-> gsObject.xPupilArcsec - (getXMax(img) * TestScale) \div 2,
      xmax |-> gsObject.xPupilArcsec + (getXMax(img) * TestScale) \div 2,
      ymin |-> gsObject.yPupilArcsec - (getYMax(img) * TestScale) \div 2,
      ymax |-> gsObject.yPupilArcsec + (getYMax(img) * TestScale) \div 2 ]

Outside(box, d) ==
    \/ box.xmax < detectors[d].xMinArcsec
    \/ box.xmin > detectors[d].xMaxArcsec
    \/ box.ymax < detectors[d].yMinArcsec
    \/ box.ymin > detectors[d].yMaxArcsec

OutsideAll == \A d \in DetIds : Outside(TestImageBox(loc.gsObject, loc.img), d)

\* C12: when the test image lies entirely outside every detector's pupil
\* box, findAllDetectors returns an empty detector list and no string
\* without having computed the active pixels, and drawObject returns that
\* same sentinel.
C12_OutsideEveryDetectorShortCircuits ==
    (Located /\ OutsideAll) =>
        /\ loc.result.outputList = <<>>
        /\ loc.result.isNone
        /\ ~loc.result.thresholded
        /\ drawObject(Cur, loc.gsObject, loc.result).exc = ""
        /\ drawObject(Cur, loc.gsObject, loc.result).ret.isNone

\* An object whose x is that of a detector's middle but whose test image
\* lies beyond every detector in y has been located.
C12_Witness ==
    /\ Located /\ OutsideAll
    /\ loc.gsObject.xPupilArcsec = 8
    /\ loc.result.outputList = <<>>

\* The positions of s at which a '//' starts.
Slashes(s) == {i \in 1 .. Len(s) - 1 : s[i] = "/" /\ s[i + 1] = "/"}

\* s cut at every '//', as a reader of the catalog column would cut it.
RECURSIVE SplitSlashes(_)
SplitSlashes(s) ==
    IF Slashes(s) = {} THEN <<s>>
    ELSE <<SubSeq(s, 1, SetMin(Slashes(s)) - 1)>>
         \o SplitSlashes(SubSeq(s, SetMin(Slashes(s)) + 2, Len(s)))

Orders(keys) ==
    {f \in [1 .. Cardinality(keys) -> keys] : \A i, j \in DOMAIN f : f[i] = f[j] => i = j}

NoRoot == [isNone |-> TRUE, s |-> <<>>]

Root(s) == [isNone |-> FALSE, s |-> s]

\* The loop body with `nameRoot is not None` taken as always true, None
\* being prepended as the empty string.
writtenNameAlwaysRooted(nameRoot, name) ==
    nameRoot.s \o <<"_">> \o name

\* The loop body of writeImages: the name of the file written for the key.
writtenName(nameRoot, name) ==
    IF ~nameRoot.isNone THEN nameRoot.s \o <<"_">> \o name ELSE name

\* writeImages(nameRoot), the dict being iterated in the given order
writeImages(S, nameRoot, order) ==
    [ written |-> [i \in DOMAIN order |->
                      [file_name |-> writtenName(nameRoot, order[i]),
                       image |-> S.detectorImages[order[i]]]],
      namesWritten |-> [i \in DOMAIN order |-> writtenName(nameRoot, order[i])] ]

WriteImages(nameRoot) ==
    /\ \E order \in Orders(DOMAIN detectorImages) :
       \E w \in {writeImages(Cur, nameRoot, order)} :
          last' = [op |-> "writeImages", exc |-> "", ret |-> w.namesWritten,
                   written |-> w.written, nameRoot |-> nameRoot]
    /\ UNCHANGED <<obs_metadata, noiseWrapper, seeded, PSF, rngPos, wcs, wcsFits,
                   blankImageCache, detectorImages, heap, drawn, held, loc, thr>>

\* The rows drawn before writing: an object on the first detector and one
\* on the edge the detectors share.
WriteRows ==
    { <<GsObject("sersic", "sed", 8, 8, FullFlux), CatalogImage(0)>>,
      <<WcsObject, WcsImage>> }

NextWrite ==
    \/ \E row \in WriteRows : DrawObject(row[1], row[2])
    \/ \E nameRoot \in {NoRoot, Root(<<"m", "y">>)} : WriteImages(nameRoot)

SpecWrite == InitLocate /\ [][NextWrite]_vars

\* The detector identities as they are to appear in file names.
IdentityInFileName == <<
    <<"R", "_", "2", "_", "2", "_", "S", "_", "1", "_", "1">>,
    <<"D", "e", "t", "2", "2">> >>

\* Every composite has been written once, one name has been returned per
\* file, and each file's name is the prefix, the identity of the detector
\* whose WCS the buffer carries, '_', a bandpass name and '.fits'.
WrittenAs(prefix) ==
    /\ Len(last.written) = Cardinality(DOMAIN detectorImages)
    /\ {last.written[i].image : i \in DOMAIN last.written} =
          {detectorImages[name] : name \in DOMAIN detectorImages}
    /\ last.ret = [i \in DOMAIN last.written |-> last.written[i].file_name]
    /\ \A i, j \in DOMAIN last.ret : last.ret[i] = last.ret[j] => i = j
    /\ \A i \in DOMAIN last.written :
          \E b \in SeqToSet(bandpassDict) :
              last.written[i].file_name =
                  prefix \o IdentityInFileName[heap[last.written[i].image].wcs[1]]
                  \o <<"_", b, ".", "f", "i", "t", "s">>

\* C14 as stated: the names are '<nameRootOrEmpty>_<identity>_<band>.fits',
\* with and without nameRoot.
C14_NamesRootUnderscoreIdentity ==
    last.op = "writeImages" => WrittenAs(last.nameRoot.s \o <<"_">>)

\* C14 amended: the names are '<nameRoot>_<identity>_<band>.fits' for a
\* given nameRoot and '<identity>_<band>.fits', with no leading '_', when
\* no nameRoot is given.
C14_NamesRootedOrBare ==
    last.op = "writeImages" =>
        WrittenAs(IF last.nameRoot.isNone THEN <<>> ELSE last.nameRoot.s \o <<"_">>)

\* Four composites have been written without a nameRoot.
C14_Witness ==
    /\ last.op = "writeImages"
    /\ last.nameRoot.isNone
    /\ Len(last.written) = 4

(***************************************************************************)
(* Two sessions given the same drawObject calls.  The first is the         *)
(* session of the variables, the second is kept as a value in loc.  Each   *)
(* is built with a seed or with None; a session built with None draws from *)
(* a generator that GalSim seeds with the system clock, which differs from *)
(* one session to the other.  The test render is a function of the         *)
(* object and of the state of the stream it draws from.                    *)
(***************************************************************************)
NoSeed == [isNone |-> TRUE, n |-> 0]

Seed(n) == [isNone |-> FALSE, n |-> n]

Seeds == {NoSeed, Seed(0), Seed(1)}

\* The system clock when the first and the second session draw.
Clocks == <<2, 3>>

\* A generator that takes the clock whatever the seed.
InitRngClock(seed, clock) == clock

\* The state of the stream the session draws from: UniformDeviate(seed), or
\* with seed None the clock.
InitRng(seed, clock) == IF ~seed.isNone THEN seed.n ELSE clock

\* The session after GalSimInterpreter.__init__(seed=seed), as a value.
NewSession(seed, clock) ==
    [ md |-> [bandpass |-> "u", phoSimMetaData |-> PhoSim(112)],
      nw |-> "None", seeded |-> ~seed.isNone,
      wcs |-> [d \in DetIds |-> NoWcs], wcsFits |-> [d \in DetIds |-> 0],
      blankImageCache |-> EmptyDict, detectorImages |-> EmptyDict,
      heap |-> <<>>, rngPos |-> InitRng(seed, clock), exc |-> "", ret |-> 0 ]

InitTwin ==
    \E seedA \in Seeds, seedB \in Seeds :
        /\ obs_metadata = NewSession(seedA, Clocks[1]).md
        /\ noiseWrapper = NewSession(seedA, Clocks[1]).nw
        /\ seeded = NewSession(seedA, Clocks[1]).seeded
        /\ PSF = "None"
        /\ rngPos = NewSession(seedA, Clocks[1]).rngPos
        /\ wcs = NewSession(seedA, Clocks[1]).wcs
        /\ wcsFits = NewSession(seedA, Clocks[1]).wcsFits
        /\ blankImageCache = NewSession(seedA, Clocks[1]).blankImageCache
        /\ detectorImages = NewSession(seedA, Clocks[1]).detectorImages
        /\ heap = NewSession(seedA, Clocks[1]).heap
        /\ last = NoCall("init", 0, FALSE)
        /\ drawn = [n |-> 0, partial |-> FALSE, expected |-> EmptyDict]
        /\ held = <<>>
        /\ thr = ThrIdle
        /\ loc = [phase |-> "twin", seedA |-> seedA, seedB |-> seedB,
                  S |-> NewSession(seedB, Clocks[2])]

\* The same object is drawn in both sessions; the test renders are the same
\* when both streams are in the same state.
TwinDraw(gsObject, imgA, imgB) ==
    /\ loc.phase = "twin"
    /\ drawn.n < MaxDraws
    /\ rngPos = loc.S.rngPos => imgA = imgB
    /\ \E SA \in {drawObject(Cur, gsObject, findAllDetectors(gsObject, imgA, PSF))},
          SB \in {drawObject(loc.S, gsObject, findAllDetectors(gsObject, imgB, PSF))} :
          /\ Commit(SA)
          /\ loc' = [loc EXCEPT !.S = [SB EXCEPT !.exc = "", !.ret = 0]]
          /\ last' = [op |-> "drawObject", exc |-> SA.exc, ret |-> SA.ret,
                      galSimType |-> gsObject.galSimType, sed |-> gsObject.sed,
                      found |-> 0, d |-> 0, cached |-> FALSE]
          /\ drawn' = [drawn EXCEPT !.n = @ + 1]
    /\ UNCHANGED <<obs_metadata, noiseWrapper, seeded, PSF, held, thr>>

\* The objects drawn: those of WriteRows and one without sed.
TwinObjects ==
    {row[1] : row \in WriteRows} \cup {GsObject("sersic", "None", 8, 8, FullFlux)}

NextTwin ==
    \E o \in TwinObjects, imgA \in {CatalogImage(0), CatalogImage(2000)},
       imgB \in {CatalogImage(0), CatalogImage(2000)} :
        TwinDraw(o, imgA, imgB)

SpecTwin == InitTwin /\ [][NextTwin]_vars

CelestialProperties ==
    { "galSimType", "sed", "raRadians", "decRadians", "xPupilRadians",
      "xPupilArcsec", "yPupilRadians", "yPupilArcsec", "halfLightRadiusRadians",
      "halfLightRadiusArcsec", "minorAxisRadians", "majorAxisRadians",
      "positionAngleRadians", "sindex" }

DetectorProperties ==
    { "xMinPix", "xMaxPix", "yMinPix", "yMaxPix", "xCenterPix", "yCenterPix",
      "xMaxArcsec", "xMinArcsec", "yMaxArcsec", "yMinArcsec", "xCenterArcsec",
      "yCenterArcsec", "epoch", "obs_metadata", "name", "photParams",
      "fileName", "afwCamera", "afwDetector" }

FieldValues == {"a", "b", "c"}

\* __init__: every property's attribute is assigned from the arguments.
NewObject(properties, v) == [name \in properties |-> v]

\* A property's getter: return self._<name>.
PropertyGet(obj, name) == obj[name]

\* A setter that stores the value.
PropertySetStores(obj, name, value) ==
    [obj |-> [obj EXCEPT ![name] = value], exc |-> ""]

\* A property's setter: raise RuntimeError, nothing else.
PropertySet(obj, name, value) ==
    [obj |-> obj, exc |-> "RuntimeError"]

InitFields ==
    /\ InitSession
    /\ \E v \in {"a", "b"} :
          loc = [phase |-> "objects",
                 gsObject |-> NewObject(CelestialProperties, v),
                 detector |-> NewObject(DetectorProperties, v)]

\* obj.<name> = value on the celestial object or on the detector.
AssignField(cls, name, value) ==
    /\ \E r \in {PropertySet(loc[cls], name, value)} :
          /\ loc' = [loc EXCEPT ![cls] = r.obj]
          /\ last' = [op |-> "assign", cls |-> cls, name |-> name,
                      value |-> value, exc |-> r.exc]
    /\ UNCHANGED <<obs_metadata, noiseWrapper, seeded, PSF, rngPos, wcs, wcsFits,
                   blankImageCache, detectorImages, heap, drawn, held, thr>>

\* detector.wcs = value, for detector d.
AssignWcs(d, value) ==
    /\ \E r \in {PropertySet([wcs |-> wcs[d]], "wcs", value)} :
          /\ wcs' = [wcs EXCEPT ![d] = r.obj.wcs]
          /\ last' = [op |-> "assign", cls |-> "detector", name |-> "wcs",
                      value |-> value, exc |-> r.exc]
    /\ UNCHANGED <<obs_metadata, noiseWrapper, seeded, PSF, rngPos, wcsFits,
                   blankImageCache, detectorImages, heap, drawn, held, loc, thr>>

WcsValues(d) ==
    { NoWcs, [isNone |-> FALSE, id |-> <<d, 7>>, fitsHeader |-> EmptyDict] }

NextFields ==
    \/ \E name \in CelestialProperties, value \in FieldValues :
          AssignField("gsObject", name, value)
    \/ \E name \in DetectorProperties, value \in FieldValues :
          AssignField("detector", name, value)
    \/ \E d \in DetIds : \E value \in WcsValues(d) : AssignWcs(d, value)
    \/ \E d \in DetIds : WcsRead(d)

SpecFields == InitFields /\ [][NextFields]_vars

\* What reading every property but wcs returns in a state.
FieldsRead ==
    [ gsObject |-> [name \in CelestialProperties |-> PropertyGet(loc.gsObject, name)],
      detector |-> [name \in DetectorProperties |-> PropertyGet(loc.detector, name)] ]

\* C16: every assignment to a public field of a GalSimCelestialObject or of a
\* GalSimDetector (wcs included) raises RuntimeError and changes no field; what
\* is read from each field is the same after every operation as before it: a
\* WCS, once built, stays the one every later read of wcs returns.
C16_FieldsAreReadOnly ==
    [][ /\ FieldsRead' = FieldsRead
        /\ last'.op = "assign" => last'.exc = "RuntimeError" /\ wcs' = wcs
        /\ \A d \in DetIds : ~wcs[d].isNone => wcs'[d] = wcs[d]
        /\ last'.op = "wcs" => last'.exc = "" /\ last'.ret = wcs'[last'.d].id ]_vars

C16_Witness ==
    /\ last.op = "assign"
    /\ last.name = "wcs"
    /\ last.exc = "RuntimeError"
    /\ ~wcs[1].isNone
    /\ last.value # wcs[1]
    /\ loc.phase = "objects"

\* ---------------------------------------------------------------------------
\* GalSimCelestialObject.flux(band).  A call's outcome is the exception it
\* raises ("" for none) and the sequence of what it returns (empty when it
\* raises).

\* A lookup with a default: self._fluxDict.get(band, 0).
fluxOrDefault(gsObject, band) ==
    IF band \notin DOMAIN gsObject.fluxDict
    THEN [exc |-> "", ret |-> <<0>>]
    ELSE [exc |-> "", ret |-> <<gsObject.fluxDict[band]>>]

flux(gsObject, band) ==
    IF band \notin DOMAIN gsObject.fluxDict
    THEN [exc |-> "RuntimeError", ret |-> <<>>]
    ELSE [exc |-> "", ret |-> <<gsObject.fluxDict[band]>>]

\* Electron counts, zero included, for any subset of the bands u and g.
FluxDicts ==
    UNION { [keys -> {0, 1, 3}] : keys \in SUBSET {"u", "g"} }

FluxBands == {"u", "g", "r", "y"}

FluxCall(gsObject, band) ==
    /\ loc.phase = "idle"
    /\ loc' = [phase |-> "called", gsObject |-> gsObject, band |-> band]
    /\ PureFrame

FluxReturn ==
    /\ loc.phase = "called"
    /\ \E r \in {flux(loc.gsObject, loc.band)} :
          loc' = [phase |-> "returned", gsObject |-> loc.gsObject,
                  band |-> loc.band, exc |-> r.exc, ret |-> r.ret]
    /\ PureFrame

NextFlux ==
    \/ \E fluxDict \in FluxDicts, band \in FluxBands :
          FluxCall(GsObject("sersic", "sed", 8, 8, fluxDict), band)
    \/ FluxReturn

SpecFlux == InitLocate /\ [][NextFlux]_vars

\* C17: flux(band) returns the electron count stored for the band at
\* construction when the band is in the flux mapping and raises RuntimeError,
\* returning nothing, when it is not.
C17_FluxOfStoredBandOrRuntimeError ==
    loc.phase = "returned" =>
        IF loc.band \in DOMAIN loc.gsObject.fluxDict
        THEN loc.exc = "" /\ loc.ret = <<loc.gsObject.fluxDict[loc.band]>>
        ELSE loc.exc = "RuntimeError" /\ loc.ret = <<>>

C17_Witness ==
    /\ loc.phase = "returned"
    /\ DOMAIN loc.gsObject.fluxDict = {"u"}
    /\ loc.gsObject.fluxDict["u"] = 0
    /\ loc.band = "g"
    /\ loc.exc = "RuntimeError"

\* ---------------------------------------------------------------------------
\* C18: drawObject, and findAllDetectors, on a point source while no PSF is
\* configured raise RuntimeError before the test image is rendered or any
\* detector is examined; detectorImages and blankImageCache, and the buffers
\* and the random stream, are left as they were.
C18_PointSourceWithoutPsfRaises ==
    [][ /\ \A row \in CatalogRows :
              row[1].galSimType = "pointSource" =>
                  \A r \in {findAllDetectors(row[1], row[2], "None")} :
                      r.kind = "raise" /\ ~r.rendered /\ ~r.thresholded
                          /\ r.outputList = <<>>
        /\ (DrawStep /\ last'.galSimType = "pointSource" /\ PSF = "None") =>
              /\ last'.exc = "RuntimeError"
              /\ last'.found = 0
              /\ detectorImages' = detectorImages
              /\ blankImageCache' = blankImageCache
              /\ heap' = heap
              /\ rngPos' = rngPos ]_vars

\* A point source was refused in a session that already holds images.
C18_Witness ==
    /\ last.op = "drawObject"
    /\ last.galSimType = "pointSource"
    /\ last.exc = "RuntimeError"
    /\ PSF = "None"
    /\ DOMAIN detectorImages # {}

\* ---------------------------------------------------------------------------
\* Construction.  A constructor call's outcome is the exception it raises
\* ("" for none) and the sequence of the instance it returns (empty when it
\* raises); an optional argument is a record with isNone.

MaxInstances == 2

NoArg == [isNone |-> TRUE, v |-> <<>>]

Arg(v) == [isNone |-> FALSE, v |-> v]

\* A constructor that stores whatever it is given.
InterpreterInitUnchecked(detectorArg, seed, clock) ==
    [exc |-> "",
     instance |-> << [detectors |-> detectorArg, S |-> NewSession(seed, clock)] >>]

\* GalSimInterpreter.__init__: raise RuntimeError if detectors is None, before
\* self.detectors and the two caches are assigned.
InterpreterInit(detectorArg, seed, clock) ==
    IF detectorArg.isNone
    THEN [exc |-> "RuntimeError", instance |-> <<>>]
    ELSE [exc |-> "",
          instance |-> << [detectors |-> detectorArg, S |-> NewSession(seed, clock)] >>]

\* GalSimDetector.__init__: raise RuntimeError if photParams is None, before
\* any attribute is assigned.
DetectorInit(d, photParams) ==
    IF photParams.isNone
    THEN [exc |-> "RuntimeError", instance |-> <<>>]
    ELSE [exc |-> "",
          instance |-> << [detector |-> detectors[d], wcs |-> NoWcs,
                           photParams |-> photParams] >>]

\* The detector arguments: none, an empty list, and lists of the camera.
DetectorArgs == {NoArg, Arg(<<>>), Arg(<<1>>), Arg(<<1, 2>>)}

PhotParamArgs == {NoArg, Arg("photParams")}

InitConstruct ==
    /\ InitSession
    /\ loc = [phase |-> "instances", interpreters |-> {}, detectorsBuilt |-> {},
              call |-> [cls |-> "", given |-> TRUE, exc |-> ""]]

\* The instances a caller holds after a constructor call: the one returned,
\* if any, with those held before.
HeldAfter(instances, r) == instances \cup {r.instance[i] : i \in DOMAIN r.instance}

ConstructInterpreter(detectorArg, seed) ==
    /\ Cardinality(loc.interpreters) + Cardinality(loc.detectorsBuilt) < MaxInstances
    /\ \E r \in {InterpreterInit(detectorArg, seed, Clocks[1])} :
          loc' = [loc EXCEPT !.interpreters = HeldAfter(@, r),
                             !.call = [cls |-> "GalSimInterpreter",
                                       given |-> ~detectorArg.isNone, exc |-> r.exc]]
    /\ PureFrame

ConstructDetector(d, photParams) ==
    /\ Cardinality(loc.interpreters) + Cardinality(loc.detectorsBuilt) < MaxInstances
    /\ \E r \in {DetectorInit(d, photParams)} :
          loc' = [loc EXCEPT !.detectorsBuilt = HeldAfter(@, r),
                             !.call = [cls |-> "GalSimDetector",
                                       given |-> ~photParams.isNone, exc |-> r.exc]]
    /\ PureFrame

NextConstruct ==
    \/ \E detectorArg \in DetectorArgs, seed \in Seeds :
          ConstructInterpreter(detectorArg, seed)
    \/ \E d \in DetIds, photParams \in PhotParamArgs : ConstructDetector(d, photParams)

SpecConstruct == InitConstruct /\ [][NextConstruct]_vars

\* C19: constructing a GalSimInterpreter without detectors, or a GalSimDetector
\* without photometric parameters, raises RuntimeError and yields no instance:
\* no interpreter held lacks its detectors, no detector held lacks its
\* photometric parameters.
C19_ConstructorsRequireCollaborators ==
    [][ /\ ~loc'.call.given =>
              /\ loc'.call.exc = "RuntimeError"
              /\ loc'.interpreters = loc.interpreters
              /\ loc'.detectorsBuilt = loc.detectorsBuilt
        /\ \A i \in loc'.interpreters : ~i.detectors.isNone
        /\ \A d \in loc'.detectorsBuilt : ~d.photParams.isNone ]_vars

\* A construction was refused while an instance is held.
C19_Witness ==
    /\ loc.phase = "instances"
    /\ loc.call.cls = "GalSimInterpreter"
    /\ ~loc.call.given
    /\ loc.call.exc = "RuntimeError"
    /\ loc.detectorsBuilt # {}

\* ---------------------------------------------------------------------------
\* Re-anchoring a WCS: GalSim_afw_TanSipWCS._newOrigin.

\* What GalSim_afw_TanSipWCS.__init__ assigns once self.fitsHeader is built
\* for detector d: the reference pixel read from the header, kept twice, and
\* the origin.  getFitsMetadata() hands out a new header at every call.
TanSipWcsInit(d, header) ==
    [ afwDetector |-> d, fitsHeader |-> header,
      crpix1 |-> header["CRPIX1"], crpix2 |-> header["CRPIX2"],
      afw_crpix1 |-> header["CRPIX1"], afw_crpix2 |-> header["CRPIX2"],
      origin |-> <<header["CRPIX1"], header["CRPIX2"]>> ]

\* The instance detector d's wcs property holds once built: the one
\* constructed, with the header as the getter left it.
DetectorWcs(d) ==
    [TanSipWcsInit(d, BaseHeader(d, obs_metadata)) EXCEPT !.fitsHeader = wcs[d].fitsHeader]

\* _newOrigin: a new instance constructed over the same fit (wcs=self._tanSipWcs),
\* then crpix1, crpix2 and the header's CRPIX1 and CRPIX2 set to the origin.
newOrigin(self, md, origin) ==
    LET newWcs == TanSipWcsInit(self.afwDetector, BaseHeader(self.afwDetector, md))
    IN  [newWcs EXCEPT !.crpix1 = origin[1],
                       !.crpix2 = origin[2],
                       !.fitsHeader = ("CRPIX1" :> origin[1]) @@ ("CRPIX2" :> origin[2])
                                        @@ newWcs.fitsHeader]

Origins == {<<0, 0>>, <<1, 3>>, <<4, 4>>}

\* detector.wcs._newOrigin(origin), on a detector whose WCS has been built.
Reanchor(d, origin) ==
    /\ ~wcs[d].isNone
    /\ loc.phase = "idle"
    /\ loc' = [phase |-> "anchored", d |-> d, origin |-> origin,
               original |-> DetectorWcs(d),
               new |-> newOrigin(DetectorWcs(d), obs_metadata, origin)]
    /\ PureFrame

\* _newOrigin(origin) on the instance the last call returned.
ReanchorAgain(origin) ==
    /\ loc.phase = "anchored"
    /\ loc.d # 0
    /\ loc' = [phase |-> "anchored", d |-> 0, origin |-> origin,
               original |-> loc.new,
               new |-> newOrigin(loc.new, obs_metadata, origin)]
    /\ PureFrame

NextOrigin ==
    \/ \E d \in DetIds : WcsRead(d)
    \/ \E d \in DetIds, origin \in Origins : Reanchor(d, origin)
    \/ \E origin \in Origins : ReanchorAgain(origin)

SpecOrigin == InitWcs /\ [][NextOrigin]_vars

\* C20: _newOrigin(origin) returns an instance whose crpix1, crpix2 and header
\* CRPIX1, CRPIX2 are the new origin and whose every other header field and
\* calibration datum is the original's; the original is left as it was.
C20_NewOriginMovesOnlyTheOrigin ==
    loc.phase = "anchored" =>
        /\ loc.new.crpix1 = loc.origin[1]
        /\ loc.new.crpix2 = loc.origin[2]
        /\ loc.new.fitsHeader["CRPIX1"] = loc.origin[1]
        /\ loc.new.fitsHeader["CRPIX2"] = loc.origin[2]
        /\ DOMAIN loc.new.fitsHeader = DOMAIN loc.original.fitsHeader
        /\ \A key \in (DOMAIN loc.new.fitsHeader \cap DOMAIN loc.original.fitsHeader)
                          \ {"CRPIX1", "CRPIX2"} :
              loc.new.fitsHeader[key] = loc.original.fitsHeader[key]
        /\ loc.new.afwDetector = loc.original.afwDetector
        /\ loc.new.afw_crpix1 = loc.original.afw_crpix1
        /\ loc.new.afw_crpix2 = loc.original.afw_crpix2
        /\ loc.d # 0 => DetectorWcs(loc.d) = loc.original

\* ---------------------------------------------------------------------------
\* The interval test of the two passes, on its own: a footprint interval
\* [lo, hi] against a detector's [dMin, dMax], in pupil units.

Coords == 0 .. 4

OverlapCall(lo, hi, dMin, dMax) ==
    /\ loc.phase = "idle"
    /\ loc' = [phase |-> "called", lo |-> lo, hi |-> hi, dMin |-> dMin, dMax |-> dMax]
    /\ PureFrame

OverlapReturn ==
    /\ loc.phase = "called"
    /\ loc' = [phase |-> "returned", lo |-> loc.lo, hi |-> loc.hi,
               dMin |-> loc.dMin, dMax |-> loc.dMax,
               answer |-> OverLaps(loc.lo, loc.hi, loc.dMin, loc.dMax)]
    /\ PureFrame

\* Footprints of any extent, a single point included; detectors of some extent.
NextOverlap ==
    \/ \E lo \in Coords, hi \in Coords, dMin \in Coords, dMax \in Coords :
          /\ lo <= hi
          /\ dMin < dMax
          /\ OverlapCall(lo, hi, dMin, dMax)
    \/ OverlapReturn

SpecOverlap == InitLocate /\ [][NextOverlap]_vars

\* C21: the interval test reports an overlap whenever [lo, hi] and
\* [dMin, dMax] have a point in common (one holds an endpoint of the other,
\* or one contains the other, coinciding endpoints included), and none only
\* when they are disjoint.
C21_OverlapIffNotDisjoint ==
    loc.phase = "returned" =>
        (loc.answer <=> ~(loc.hi < loc.dMin \/ loc.lo > loc.dMax))

\* ---------------------------------------------------------------------------
\* C22: the Pass-1 box is centred on the object's pupil position on both
\* axes: it reaches half the test image's extent times the test scale below
\* and above xPupilArcsec, and below and above yPupilArcsec.
C22_Pass1BoxCentredOnObject ==
    Located =>
        \A box \in {Pass1Box(loc.gsObject, loc.img)} :
            /\ 2 * (box.xmax - loc.gsObject.xPupilArcsec) = TestScale * getXMax(loc.img)
            /\ 2 * (loc.gsObject.xPupilArcsec - box.xmin) = TestScale * getXMax(loc.img)
            /\ 2 * (box.ymax - loc.gsObject.yPupilArcsec) = TestScale * getYMax(loc.img)
            /\ 2 * (loc.gsObject.yPupilArcsec - box.ymin) = TestScale * getYMax(loc.img)

\* ---------------------------------------------------------------------------
\* The extent of the pixels ap of the test image about the object: columns
\* are x, rows are y (pixel <<row, column>> of the array).
SpatialExtent(gsObject, img, ap) ==
    LET rows == {p[1] : p \in ap}
        cols == {p[2] : p \in ap}
    IN  [ xmin |-> TestScale * (SetMin(cols) - getXMax(img) \div 2) + gsObject.xPupilArcsec,
          xmax |-> TestScale * (SetMax(cols) - getXMax(img) \div 2) + gsObject.xPupilArcsec,
          ymin |-> TestScale * (SetMin(rows) - getYMax(img) \div 2) + gsObject.yPupilArcsec,
          ymax |-> TestScale * (SetMax(rows) - getYMax(img) \div 2) + gsObject.yPupilArcsec ]

BoxWithin(inner, outer) ==
    /\ outer.xmin <= inner.xmin /\ inner.xmax <= outer.xmax
    /\ outer.ymin <= inner.ymin /\ inner.ymax <= outer.ymax

\* C23: the Pass-2 box is the spatial extent of the active pixels (x from
\* their columns, y from their rows), it lies within the Pass-1 box, and the
\* per-pixel check places each active pixel with the same assignment.
C23_Pass2BoxIsActiveExtent ==
    (Located /\ loc.result.thresholded) =>
        \A ap \in {activePixels(loc.img)} :
            /\ Pass2Box(loc.gsObject, loc.img, ap) = SpatialExtent(loc.gsObject, loc.img, ap)
            /\ BoxWithin(Pass2Box(loc.gsObject, loc.img, ap), Pass1Box(loc.gsObject, loc.img))
            /\ \A d \in DetIds :
                  Impinges(loc.gsObject, loc.img, ap, d) <=>
                      \E p \in ap :
                          containsPupilCoordinates(d,
                              loc.gsObject.xPupilArcsec - (getXMax(loc.img) * TestScale) \div 2
                                  + p[2] * TestScale,
                              loc.gsObject.yPupilArcsec - (getYMax(loc.img) * TestScale) \div 2
                                  + p[1] * TestScale)

\* ---------------------------------------------------------------------------
\* The flux of the brightest pixel of a test image.
brightestPixel(img) == SetMax({img.array[q] : q \in DOMAIN img.array})

keyOfNames(detectorName, bandpassName) ==
    DetectorFileName(detectorName) \o <<"_">> \o bandpassName
        \o <<".", "f", "i", "t", "s">>

\* Detector names: the two of the camera, and names that differ in their
\* separators or hold an underscore.
DetectorNames ==
    { NameR22S11, NameDet22, <<"A">>, <<"A", ",", "1">>, <<"A", ":", "1">>,
      <<"A", "_", "b">> }

\* Bandpass names: single letters and a name with an underscore.
BandpassNames == { <<"u">>, <<"g">>, <<"b", "_", "u">> }

KeyCall(name1, band1, name2, band2) ==
    /\ loc.phase = "idle"
    /\ loc' = [phase |-> "called", name1 |-> name1, band1 |-> band1,
               name2 |-> name2, band2 |-> band2]
    /\ PureFrame

KeyReturn ==
    /\ loc.phase = "called"
    /\ loc' = [phase |-> "returned", name1 |-> loc.name1, band1 |-> loc.band1,
               name2 |-> loc.name2, band2 |-> loc.band2,
               key1 |-> keyOfNames(loc.name1, loc.band1),
               key2 |-> keyOfNames(loc.name2, loc.band2)]
    /\ PureFrame

NextKeys ==
    \/ \E name1 \in DetectorNames, name2 \in DetectorNames,
          band1 \in BandpassNames, band2 \in BandpassNames :
            KeyCall(name1, band1, name2, band2)
    \/ KeyReturn

SpecKeys == InitLocate /\ [][NextKeys]_vars

\* C25: two distinct pairs of detector and bandpass name never map to the
\* same detectorImages key.
C25_DistinctPairsDistinctKeys ==
    (loc.phase = "returned"
        /\ (loc.name1 # loc.name2 \/ loc.band1 # loc.band2))
        => loc.key1 # loc.key2

\* ---------------------------------------------------------------------------
\* Sessions of drawObject, blankImage and writeImages calls.

NextCaches ==
    \/ \E row \in WriteRows : DrawObject(row[1], row[2])
    \/ \E d \in DetIds : BlankImage(d)
    \/ \E nameRoot \in {NoRoot, Root(<<"m", "y">>)} : WriteImages(nameRoot)

SpecCaches == InitLocate /\ [][NextCaches]_vars

\* A step that is a writeImages call returning something new.
WriteStep == last'.op = "writeImages" /\ last' # last

\* C26: no operation removes a key of detectorImages or of blankImageCache;
\* writeImages leaves both caches and every buffer as they were, and two
\* consecutive writeImages calls with the same nameRoot return the same set
\* of file names.
C26_CachesOnlyGrow ==
    [][ /\ DOMAIN detectorImages \subseteq DOMAIN detectorImages'
        /\ DOMAIN blankImageCache \subseteq DOMAIN blankImageCache'
        /\ WriteStep =>
              /\ detectorImages' = detectorImages
              /\ blankImageCache' = blankImageCache
              /\ heap' = heap
        /\ (WriteStep /\ last.op = "writeImages" /\ last'.nameRoot = last.nameRoot) =>
              SeqToSet(last'.ret) = SeqToSet(last.ret) ]_vars

\* Images of both detectors have been written, after a blankImage call.
C26_Witness ==
    /\ last.op = "writeImages"
    /\ Cardinality(DOMAIN detectorImages) = 4
    /\ Cardinality(DOMAIN blankImageCache) = 2
    /\ Len(held) > 0
    /\ Len(last.ret) = 4

\* ---------------------------------------------------------------------------
\* C27: a WCS that the wcs property of a detector with a raft/sensor name
\* returns carries both CHIPID and OUTFILE in its header, on the first and on
\* every later read; a read that raises leaves no WCS cached, so the next
\* read raises again.
C27_NoPartlyBuiltWcsIsKept ==
    last.op = "wcs" =>
        /\ (last.exc = "" /\ MatchesRaftSensor(fileName(last.d))) =>
              {"CHIPID", "OUTFILE"} \subseteq DOMAIN wcs[last.d].fitsHeader
        /\ last.exc # "" =>
              /\ wcs[last.d].isNone
              /\ \A S \in {WcsGet(Cur, last.d)} : S.exc = last.exc

\* ---------------------------------------------------------------------------
\* C28: a drawObject call that raises leaves detectorImages and
\* blankImageCache as they were before it: no composite image has been
\* created and no flux has been added to any composite.
C28_FailedDrawChangesNoCache ==
    [][ (DrawStep /\ last'.exc # "") =>
            /\ detectorImages' = detectorImages
            /\ blankImageCache' = blankImageCache
            /\ \A name \in DOMAIN detectorImages :
                  heap'[detectorImages'[name]] = heap[detectorImages[name]] ]_vars

\* ---------------------------------------------------------------------------
\* The pixel-origin data of a WCS instance agree with one another.
OriginConsistent(w) ==
    /\ w.origin = <<w.crpix1, w.crpix2>>
    /\ w.fitsHeader["CRPIX1"] = w.crpix1
    /\ w.fitsHeader["CRPIX2"] = w.crpix2

\* C29: every WCS instance, built by the constructor or returned by
\* _newOrigin, has origin = (crpix1, crpix2) and header CRPIX1, CRPIX2 equal
\* to crpix1, crpix2.
C29_OriginDataConsistent ==
    /\ \A d \in DetIds : ~wcs[d].isNone => OriginConsistent(DetectorWcs(d))
    /\ loc.phase = "anchored" =>
          OriginConsistent(loc.original) /\ OriginConsistent(loc.new)

\* ---------------------------------------------------------------------------
\* GalSim_afw_TanSipWCS._radec and _xy.  A coordinate argument is a scalar or
\* a numpy array: [isArray, v], v holding the one value or the elements.
\* Pixel positions are whole pixels (pixel centres).

\* The names bound at module level in galSimDetector.py: its imports and
\* its two classes.
ModuleNames ==
    { "re", "galsim", "numpy", "afwGeom", "PUPIL", "PIXELS", "FOCAL_PLANE",
      "arcsecFromRadians", "radiansFromArcsec", "_raDecFromPixelCoords",
      "_pixelCoordsFromRaDec", "pixelCoordsFromPupilCoords",
      "tanSipWcsFromDetector", "GalSim_afw_TanSipWCS", "GalSimDetector" }

Scalar(a) == [isArray |-> FALSE, v |-> <<a>>]

Array(v) == [isArray |-> TRUE, v |-> v]

\* The sky position of the centre of pixel (xPix, yPix) of detector d.
raDecFromPixelCoords(d, xPix, yPix) ==
    LET dd == detectors[d]
    IN  << dd.xMinArcsec + PixelSize * (xPix - dd.xMinPix) + PixelSize \div 2 + Pointing[1],
           dd.yMinArcsec + PixelSize * (yPix - dd.yMinPix) + PixelSize \div 2 + Pointing[2] >>

\* The whole-pixel position of a sky position on detector d.
pixelCoordsFromRaDec(d, ra, dec) ==
    << pixelCoordinatesFromRaDec(d, ra, dec)[1] \div 2,
       pixelCoordinatesFromRaDec(d, ra, dec)[2] \div 2 >>

\* _radec(x, y): the sky positions of the pixels x + afw_crpix1,
\* y + afw_crpix2; arrays for array input, ra[0] and dec[0] otherwise.
radec(self, x, y) ==
    LET sky == [i \in DOMAIN x.v |->
                   raDecFromPixelCoords(self.afwDetector, x.v[i] + self.afw_crpix1,
                                        y.v[i] + self.afw_crpix2)]
    IN  [ exc |-> "",
          ra |-> [isArray |-> x.isArray, v |-> [i \in DOMAIN sky |-> sky[i][1]]],
          dec |-> [isArray |-> x.isArray, v |-> [i \in DOMAIN sky |-> sky[i][2]]] ]

\* _xy(ra, dec): the call of calculatePixelCoordinates looks the name up in
\* the module, where nothing binds it, and raises NameError; were it bound,
\* the pixel positions less crpix1 and crpix2 would be returned, yy whole
\* (an array) in the scalar branch.
xy(self, ra, dec) ==
    IF "calculatePixelCoordinates" \notin ModuleNames
    THEN [exc |-> "NameError", x |-> Array(<<>>), y |-> Array(<<>>)]
    ELSE LET pix == [i \in DOMAIN ra.v |->
                        pixelCoordsFromRaDec(self.afwDetector, ra.v[i], dec.v[i])]
         IN  [ exc |-> "",
               x |-> [isArray |-> ra.isArray,
                      v |-> [i \in DOMAIN pix |-> pix[i][1] - self.crpix1]],
               y |-> Array([i \in DOMAIN pix |-> pix[i][2] - self.crpix2]) ]

\* Pixel offsets from the reference pixel, as scalars and as arrays.
PixelOffsets == {-4, -3, -2, -1}

XyInputs ==
    { <<Scalar(a), Scalar(b)>> : a \in PixelOffsets, b \in PixelOffsets }
    \cup { <<Array(<<a>>), Array(<<b>>)>> : a \in PixelOffsets, b \in PixelOffsets }
    \cup { <<Array(<<a, a + 1>>), Array(<<b, b>>)>> :
              a \in PixelOffsets \ {-1}, b \in PixelOffsets }

\* A freshly built WCS of detector d.
FreshWcs(d) == TanSipWcsInit(d, BaseHeader(d, obs_metadata))

RadecCall(d, x, y) ==
    /\ loc.phase = "idle"
    /\ \E r \in {radec(FreshWcs(d), x, y)} :
          loc' = [phase |-> "radec", d |-> d, x |-> x, y |-> y,
                  ra |-> r.ra, dec |-> r.dec]
    /\ PureFrame

XyCall ==
    /\ loc.phase = "radec"
    /\ \E r \in {xy(FreshWcs(loc.d), loc.ra, loc.dec)} :
          loc' = [phase |-> "xy", d |-> loc.d, x |-> loc.x, y |-> loc.y,
                  ra |-> loc.ra, dec |-> loc.dec,
                  exc |-> r.exc, retX |-> r.x, retY |-> r.y]
    /\ PureFrame

NextXy ==
    \/ \E d \in DetIds, input \in XyInputs : RadecCall(d, input[1], input[2])
    \/ XyCall

SpecXy == InitLocate /\ [][NextXy]_vars

\* C30: _xy(ra, dec) returns, for scalar and for array input, the pixel
\* coordinates of (ra, dec) less crpix1 and crpix2, and undoes _radec on a
\* freshly built WCS: _xy(_radec(x, y)) = (x, y).
C30_XyInvertsRadec ==
    loc.phase = "xy" =>
        /\ loc.exc = ""
        /\ loc.retX = loc.x
        /\ loc.retY = loc.y
        /\ \A i \in DOMAIN loc.ra.v :
              /\ i \in DOMAIN loc.retX.v /\ i \in DOMAIN loc.retY.v
              /\ loc.retX.v[i] =
                    pixelCoordsFromRaDec(loc.d, loc.ra.v[i], loc.dec.v[i])[1]
                        - FreshWcs(loc.d).crpix1
              /\ loc.retY.v[i] =
                    pixelCoordsFromRaDec(loc.d, loc.ra.v[i], loc.dec.v[i])[2]
                        - FreshWcs(loc.d).crpix2

=============================================================================
